---------------------------- MODULE Spec2Model ----------------------------
(***************************************************************************)
(* Model of the BREP manipulation service: the /manipulate-brep endpoint   *)
(* (app.py), the per-kind orchestration of BrepManipulationService         *)
(* (manipulation_service.py) and the codec, indexer and handlers of        *)
(* BrepOperations (brep_operations.py).                                    *)
(*                                                                         *)
(* One request is followed through its stages: receive -> content check -> *)
(* dispatch -> decode (primary, secondary) -> resolve element -> handler   *)
(* -> encode -> response.  The geometric kernel (OpenCASCADE) is an        *)
(* external collaborator: every kernel call may report done, report not    *)
(* done or raise, chosen nondeterministically.  Scratch files live in      *)
(* files and survive across requests.                                      *)
(*                                                                         *)
(* Reals are scaled by ten: 10 stands for 1.0 and 1 for 0.1.               *)
(*                                                                         *)
(* Spec serves the requests of the three endpoints one at a time; SpecConc *)
(* serves several manipulate requests at once, step by step.               *)
(***************************************************************************)
EXTENDS Integers, Sequences, FiniteSets, TLC

VARIABLES
    pc,          \* position of the request in manipulate_brep / the service method
    operation_type,  \* data.get('operation_type')
    step_content,    \* data.get('step_content')
    parameters,      \* data.get('parameters', {})
    shape,       \* primary shape returned by load_step_from_string
    shape2,      \* secondary shape (boolean kinds)
    element,     \* face or edge returned by get_face_by_id / get_edge_by_id
    used,        \* the parameter values the handler was invoked with
    modified_shape,  \* shape returned by the handler
    result,      \* text returned by the service method
    exc,         \* message of the exception propagating to manipulate_brep
    response,    \* the JSON response of the request
    files,       \* scratch files present on disk
    calls,       \* kernel-side calls started by this request, in order
    returned,    \* kernel-side calls of this request that returned normally
    kernelFailed, \* the handler's kernel construction failed in this request
    validation,  \* the last /validate-step request: its text and its response
    topology,    \* the last /get-topology-info request: its text and its response
    threads,     \* the requests served concurrently by the transport's workers
    disk         \* the scratch files of the concurrent requests: name -> content

vars == <<pc, operation_type, step_content, parameters, shape, shape2, element,
          used, modified_shape, result, exc, response, files, calls, returned,
          kernelFailed, validation, topology, threads, disk>>

\* the state one /manipulate-brep request served on its own leaves alone
others == <<validation, topology, threads, disk>>

---------------------------------------------------------------------------
(* Bounds *)

\* scratch files that may be left on disk before no further request is taken
MaxFiles == 2
\* largest element id a request carries (the smallest is -MaxId)
MaxId == 4
\* requests the transport serves at the same time
NumThreads == 2

---------------------------------------------------------------------------
(* Python values *)

\* dict.get(key, default)
Get(d, k, default) == IF k \in DOMAIN d THEN d[k] ELSE default

\* the empty dict
EmptyDict == [k \in {} |-> 0]

\* a dict with one key
Single(k, v) == [x \in {k} |-> v]

\* {**d, **p}: p's entries over d's
Merge(d, p) == [k \in DOMAIN d \cup DOMAIN p |-> IF k \in DOMAIN p THEN p[k] ELSE d[k]]

Range(s) == {s[i] : i \in DOMAIN s}

IsPrefix(s, t) == Len(s) <= Len(t) /\ \A i \in 1..Len(s) : s[i] = t[i]

---------------------------------------------------------------------------
(* Shapes: a shape is the sequence of its faces in the kernel's traversal  *)
(* order; a face carries its edges, an edge its vertices.                  *)

Edge(n, vs) == [name |-> n, verts |-> vs]
Face(n, es) == [name |-> n, edges |-> es]

E1 == Edge("E1", <<"V1", "V2">>)
E2 == Edge("E2", <<"V2", "V3">>)
E3 == Edge("E3", <<"V3", "V1">>)
\* an edge bounded by a single vertex (a half-line)
L1 == Edge("L1", <<"V1">>)

\* two faces sharing the edge E2
Wedge == <<Face("F1", <<E1, E2>>), Face("F2", <<E2, E3>>)>>
\* one face with a two-vertex edge and a one-vertex edge
Fin == <<Face("G1", <<E1, L1>>)>>
\* the null shape: what OneShape() gives when no root was transferred
NullShape == <<>>

NoElement == [name |-> "none"]

---------------------------------------------------------------------------
(* Serialized solids and other JSON values of step_content.                *)
(* py is the Python type of the value, wf what the kernel's reader makes   *)
(* of the text, body the solid the text describes.                         *)

StepText(s) == [py |-> "str", wf |-> "ok", body |-> s]
Malformed == [py |-> "str", wf |-> "malformed", body |-> NullShape]
NoRoot == [py |-> "str", wf |-> "noroot", body |-> NullShape]
EmptyText == [py |-> "str", wf |-> "empty", body |-> NullShape]
None == [py |-> "None", wf |-> "none", body |-> NullShape]
\* a JSON number given where the text is expected
Number == [py |-> "int", wf |-> "none", body |-> NullShape]

StepInputs == {None, EmptyText, Malformed, NoRoot, Number, StepText(Wedge), StepText(Fin)}

---------------------------------------------------------------------------
(* Operation kinds and parameter mappings *)

FaceKinds == {"extend_face", "extrude_face", "offset_face"}
EdgeKinds == {"extend_edge", "fillet_edge", "chamfer_edge"}
BooleanKinds == {"boolean_union", "boolean_difference", "boolean_intersection"}
\* operation_type values that no branch of manipulate_brep names
UnknownKinds == {"rotate_face", "none"}
KindInputs == FaceKinds \cup EdgeKinds \cup BooleanKinds \cup UnknownKinds

IdInputs == (0 - MaxId)..MaxId

\* the mappings with key k absent or bound to a value of vals
Opt(k, vals) == {EmptyDict} \cup {Single(k, v) : v \in vals}
Join(A, B) == {Merge(a, b) : a \in A, b \in B}

PrismParams == Join(Opt("face_id", IdInputs),
                    Join(Opt("distance", {20}), Opt("direction", {<<1, 0, 0>>})))
OffsetParams == Join(Opt("face_id", IdInputs), Opt("offset", {3}))
ExtendEdgeParams == Join(Opt("edge_id", IdInputs),
                         Join(Opt("length", {20}), Opt("both_directions", {TRUE})))
FilletParams == Join(Opt("edge_id", IdInputs), Opt("radius", {3}))
ChamferParams == Join(Opt("edge_id", IdInputs), Opt("distance", {3}))
BooleanParams == Opt("other_step_content", StepInputs)

\* the parameter mappings a request of kind op is tried with: every
\* combination of the keys its branch reads, and for a kind that no branch
\* names the mappings of all the others
ParamInputs(op) ==
    IF op \in {"extend_face", "extrude_face"} THEN PrismParams
    ELSE IF op = "offset_face" THEN OffsetParams
    ELSE IF op = "extend_edge" THEN ExtendEdgeParams
    ELSE IF op = "fillet_edge" THEN FilletParams
    ELSE IF op = "chamfer_edge" THEN ChamferParams
    ELSE IF op \in BooleanKinds THEN BooleanParams
    ELSE PrismParams \cup OffsetParams \cup ExtendEdgeParams \cup FilletParams
         \cup ChamferParams \cup BooleanParams

---------------------------------------------------------------------------
(* manipulate_brep: the endpoint *)

NoResponse == [status |-> 0]

\* no /validate-step or /get-topology-info request answered yet
NoProbe == [text |-> None, response |-> NoResponse]


\* the workers of the transport
Threads == 1..NumThreads

\* the kernel outcomes a request met, "done" until chosen
NoOutcomes == [read |-> "status", read2 |-> "status", k |-> "done", k2 |-> "done",
               enc |-> "done"]

IdleThread ==
    [pc |-> "idle", stage |-> "none", op |-> "none", sc |-> None, ps |-> EmptyDict,
     shape |-> NullShape, shape2 |-> NullShape, element |-> NoElement,
     modified |-> NullShape, file |-> 0, ks |-> NoOutcomes, response |-> NoResponse]

\* a content check that tests only for None
TruthyNotNone(v) == v.py # "None"

\* Python truthiness of the JSON value: None, "" are falsy
Truthy(v) == \/ v.py = "str" /\ v.wf # "empty"
             \/ v.py = "int"

\* an if/elif chain whose last branch takes every remaining kind
RouteFallsThrough(op) ==
    IF op = "extend_face" THEN "extend_face"
    ELSE IF op = "extend_edge" THEN "extend_edge"
    ELSE IF op = "extrude_face" THEN "extrude_face"
    ELSE IF op = "offset_face" THEN "offset_face"
    ELSE IF op = "boolean_union" THEN "boolean_operation"
    ELSE IF op = "boolean_difference" THEN "boolean_operation"
    ELSE IF op = "boolean_intersection" THEN "boolean_operation"
    ELSE IF op = "fillet_edge" THEN "fillet_edge"
    ELSE "chamfer_edge"

\* the branches of the if/elif chain: the service method each kind is routed to
Route(op) ==
    IF op = "extend_face" THEN "extend_face"
    ELSE IF op = "extend_edge" THEN "extend_edge"
    ELSE IF op = "extrude_face" THEN "extrude_face"
    ELSE IF op = "offset_face" THEN "offset_face"
    ELSE IF op = "boolean_union" THEN "boolean_operation"
    ELSE IF op = "boolean_difference" THEN "boolean_operation"
    ELSE IF op = "boolean_intersection" THEN "boolean_operation"
    ELSE IF op = "fillet_edge" THEN "fillet_edge"
    ELSE IF op = "chamfer_edge" THEN "chamfer_edge"
    ELSE "unknown"

\* the third argument the boolean branches pass
BooleanOperation(op) ==
    IF op = "boolean_union" THEN "union"
    ELSE IF op = "boolean_difference" THEN "difference"
    ELSE "intersection"

BadRequest(msg) == [success |-> FALSE, error |-> msg, status |-> 400]

\* the except clause of manipulate_brep
ServerError(msg) == [success |-> FALSE, error |-> msg, status |-> 500]

\* the success response
Success(text, op, ps) ==
    [success |-> TRUE, modified_step_content |-> text, operation_applied |-> op,
     parameters_used |-> ps, status |-> 200]

Receive(op, sc, ps) ==
    /\ UNCHANGED others
    /\ pc = "idle"
    /\ validation = NoProbe /\ topology = NoProbe   \* served one at a time
    /\ Cardinality(files) < MaxFiles
    /\ operation_type' = op
    /\ step_content' = sc
    /\ parameters' = ps
    /\ pc' = "check"
    /\ UNCHANGED <<shape, shape2, element, used, modified_shape, result, exc,
                   response, files, calls, returned, kernelFailed>>

CheckContent ==
    /\ UNCHANGED others
    /\ pc = "check"
    /\ IF Truthy(step_content)
          THEN /\ pc' = "dispatch"
               /\ UNCHANGED response
          ELSE /\ response' = BadRequest("No STEP content provided")
               /\ pc' = "done"
    /\ UNCHANGED <<operation_type, step_content, parameters, shape, shape2, element,
                   used, modified_shape, result, exc, files, calls, returned,
                   kernelFailed>>

\* an if/elif chain without the final else: result is unbound at the return
DispatchNoElse ==
    /\ UNCHANGED others
    /\ pc = "dispatch"
    /\ IF Route(operation_type) # "unknown"
          THEN /\ pc' = "decode"
               /\ UNCHANGED response
          ELSE /\ response' = ServerError("UnboundLocalError: result")
               /\ pc' = "done"
    /\ UNCHANGED <<operation_type, step_content, parameters, shape, shape2, element,
                   used, modified_shape, result, exc, files, calls, returned,
                   kernelFailed>>

Dispatch ==
    /\ UNCHANGED others
    /\ pc = "dispatch"
    /\ IF Route(operation_type) # "unknown"
          THEN /\ pc' = "decode"
               /\ UNCHANGED response
          ELSE /\ response' = BadRequest("Unknown operation type")
               /\ pc' = "done"
    /\ UNCHANGED <<operation_type, step_content, parameters, shape, shape2, element,
                   used, modified_shape, result, exc, files, calls, returned,
                   kernelFailed>>

---------------------------------------------------------------------------
(* Outcomes of a call into BrepOperations: a value or a raised exception *)

Raised(msg) == [raised |-> TRUE, err |-> msg]
Returns(v) == [raised |-> FALSE, value |-> v]

\* what one kernel call can do: report done, report not done, raise
KernelOutcomes == {"done", "notdone", "raise"}

---------------------------------------------------------------------------
(* The geometric kernel's constructions (external): what matters here is   *)
(* that each result differs from its operands.                             *)

\* BRepPrimAPI_MakePrism(face, vec).Shape()
MakePrism(face, distance, direction) ==
    <<Face("P", face.edges), Face("Q", face.edges)>>

\* BRepAlgoAPI_Fuse(s1, s2).Shape()
Fuse(s1, s2) == s1 \o s2

\* BRepAlgoAPI_Cut(s1, s2).Shape()
Cut(s1, s2) == SelectSeq(s1, LAMBDA f : f \notin Range(s2)) \o <<Face("K", <<>>)>>

\* BRepAlgoAPI_Common(s1, s2).Shape()
Common(s1, s2) == SelectSeq(s1, LAMBDA f : f \in Range(s2)) \o <<Face("I", <<>>)>>

\* BRepFilletAPI_MakeFillet(shape).Add(radius, edge); Shape()
MakeFillet(s, edge, radius) == s \o <<Face("R", <<edge>>)>>

\* BRepFilletAPI_MakeChamfer(shape).Add(distance, edge); Shape()
MakeChamfer(s, edge, distance) == s \o <<Face("B", <<edge>>)>>

\* MakeThickSolidByJoin(shape, [face], offset, tolerance); Shape()
MakeThickSolid(s, face, offset) ==
    SelectSeq(s, LAMBDA f : f # face) \o <<Face("T", face.edges)>>

---------------------------------------------------------------------------
(* Codec: load_step_from_string, shape_to_step_string *)

\* a scratch file at one fixed path
NewFileFixedPath(fs) == 1

\* the name NamedTemporaryFile picks: one not on disk
NewFile(fs) == CHOOSE n \in 1..(Cardinality(fs) + 1) :
                  n \notin fs /\ \A m \in 1..(n - 1) : m \in fs

\* os.unlink
Unlink(fs, f) == fs \ {f}

\* STEPControl_Reader.ReadFile's status for a text
ReadStatus(text) == IF text.wf \in {"ok", "noroot"} THEN "RetDone" ELSE "RetError"

\* reader.TransferRoot(); reader.OneShape()
OneShape(text) == IF text.wf = "ok" THEN text.body ELSE NullShape

\* k: whether ReadFile raises instead of returning a status.
\* Gives the outcome and the files left on disk.
load_step_from_string(text, k, fs) ==
    LET f == NewFile(fs)
        created == fs \cup {f}
    IN  IF text.py # "str"
           THEN [out |-> Raised("TypeError: write() argument must be str"), files |-> created]
        ELSE IF k = "raise"
           THEN [out |-> Raised("kernel exception in ReadFile"), files |-> created]
        ELSE IF ReadStatus(text) # "RetDone"
           THEN [out |-> Raised("Failed to read STEP file content"),
                 files |-> Unlink(created, f)]
        ELSE [out |-> Returns(OneShape(text)), files |-> Unlink(created, f)]

\* k: what Transfer / Write / reading the file back do.
shape_to_step_string(s, k, fs) ==
    LET f == NewFile(fs)
        created == fs \cup {f}
    IN  IF k = "raise"
           THEN [out |-> Raised("exception while serializing"), files |-> created]
        ELSE IF k # "done"
           THEN [out |-> Raised("Failed to write STEP file"), files |-> created]
        ELSE [out |-> Returns(StepText(s)), files |-> Unlink(created, f)]

---------------------------------------------------------------------------
(* Indexer: get_face_by_id, get_edge_by_id *)

RECURSIVE Flatten(_)
Flatten(ss) == IF ss = <<>> THEN <<>> ELSE Head(ss) \o Flatten(Tail(ss))

\* TopExp_Explorer(shape, TopAbs_FACE): the faces in traversal order
ExploreFaces(s) == s

\* TopExp_Explorer(shape, TopAbs_EDGE): the edges of each face in turn, an
\* edge shared by two faces met once under each
ExploreEdges(s) == Flatten([i \in 1..Len(s) |-> s[i].edges])

\* parameters.get('face_id'): None when the key is absent
IdArg(ps, key) == IF key \in DOMAIN ps THEN [py |-> "int", v |-> ps[key]]
                  ELSE [py |-> "None", v |-> 0]

\* a range test without the lower bound
IdOutOfRangeUpperOnly(id, n) == id >= n

\* the range test of get_face_by_id / get_edge_by_id
IdOutOfRange(id, n) == id < 0 \/ id >= n

\* list[i] of Python: a negative index counts from the end
PyIndexable(list, i) == (0 - Len(list)) <= i /\ i < Len(list)
PyIndex(list, i) == IF i >= 0 THEN list[i + 1] ELSE list[Len(list) + i + 1]

get_by_id(elems, id, what) ==
    IF id.py # "int"
       THEN Raised("TypeError: '<' not supported between NoneType and int")
    ELSE IF IdOutOfRange(id.v, Len(elems))
       THEN Raised(what \o " ID out of range")
    ELSE IF ~PyIndexable(elems, id.v)
       THEN Raised("IndexError: list index out of range")
    ELSE Returns(PyIndex(elems, id.v))

get_face_by_id(s, face_id) == get_by_id(ExploreFaces(s), face_id, "Face")
get_edge_by_id(s, edge_id) == get_by_id(ExploreEdges(s), edge_id, "Edge")

---------------------------------------------------------------------------
(* Handlers of BrepOperations.  k, k2: the outcomes of the kernel calls.   *)

KernelError(k, msg) == IF k = "raise" THEN Raised("kernel exception") ELSE Raised(msg)

\* prism from the face, then fuse with the original shape; both checked
extend_face(s, face, distance, direction, k, k2) ==
    IF k # "done" THEN KernelError(k, "Failed to create prism from face")
    ELSE IF k2 # "done"
       THEN KernelError(k2, "Failed to fuse extruded face with original shape")
    ELSE Returns(Fuse(s, MakePrism(face, distance, direction)))

extrude_face(s, face, distance, direction, k, k2) ==
    extend_face(s, face, distance, direction, k, k2)

\* an extend_edge that builds geometry on the edge
extend_edge_builds(s, edge, length, both_directions) ==
    IF Len(edge.verts) < 2 THEN Raised("Edge must have at least 2 vertices")
    ELSE Returns(s \o <<Face("X", <<edge>>)>>)

\* counts the edge's vertices and returns the original shape
extend_edge(s, edge, length, both_directions) ==
    IF Len(edge.verts) < 2 THEN Raised("Edge must have at least 2 vertices")
    ELSE Returns(s)

\* an offset_face whose except clause raises like the other handlers'
offset_face_raises(s, face, offset, k) ==
    IF k # "done" THEN KernelError(k, "Failed to create offset")
    ELSE Returns(MakeThickSolid(s, face, offset))

\* the except clause returns the original shape instead of raising
offset_face(s, face, offset, k) ==
    IF k # "done" THEN Returns(s)
    ELSE Returns(MakeThickSolid(s, face, offset))

\* a fillet_edge whose except clause returns the original shape
fillet_edge_degrades(s, edge, radius, k) ==
    IF k # "done" THEN Returns(s)
    ELSE Returns(MakeFillet(s, edge, radius))

fillet_edge(s, edge, radius, k) ==
    IF k # "done" THEN KernelError(k, "Failed to create fillet")
    ELSE Returns(MakeFillet(s, edge, radius))

chamfer_edge(s, edge, distance, k) ==
    IF k # "done" THEN KernelError(k, "Failed to create chamfer")
    ELSE Returns(MakeChamfer(s, edge, distance))

boolean_union(s1, s2, k) ==
    IF k # "done" THEN KernelError(k, "Failed to perform boolean union")
    ELSE Returns(Fuse(s1, s2))

boolean_difference(s1, s2, k) ==
    IF k # "done" THEN KernelError(k, "Failed to perform boolean difference")
    ELSE Returns(Cut(s1, s2))

boolean_intersection(s1, s2, k) ==
    IF k # "done" THEN KernelError(k, "Failed to perform boolean intersection")
    ELSE Returns(Common(s1, s2))

---------------------------------------------------------------------------
(* BrepManipulationService: one method per kind, each a fixed sequence of  *)
(* calls; an exception of any call leaves the method at once.              *)

DefaultDistance == 10
DefaultDirection == <<0, 0, 1>>
DefaultLength == 10
DefaultOffset == 1
DefaultRadius == 1
DefaultChamferDistance == 1

\* a boolean_operation that goes to the handler after the first decode
StageAfterOneDecode(op, stage) ==
    IF stage \in {"decode", "decode2", "resolve"}
       THEN (IF Route(op) = "boolean_operation" THEN "handler"
             ELSE IF stage = "decode" THEN "resolve" ELSE "handler")
    ELSE IF stage = "handler" THEN "encode"
    ELSE "respond"

\* the statement that follows stage in the method of kind op
StageAfter(op, stage) ==
    IF stage = "decode"
       THEN (IF Route(op) = "boolean_operation" THEN "decode2" ELSE "resolve")
    ELSE IF stage \in {"decode2", "resolve"} THEN "handler"
    ELSE IF stage = "handler" THEN "encode"
    ELSE "respond"

\* the values the method reads from parameters, defaults applied
HandlerArgs(op, ps) ==
    IF op \in {"extend_face", "extrude_face"}
       THEN [distance |-> Get(ps, "distance", DefaultDistance),
             direction |-> Get(ps, "direction", DefaultDirection)]
    ELSE IF op = "extend_edge"
       THEN [length |-> Get(ps, "length", DefaultLength),
             both_directions |-> Get(ps, "both_directions", FALSE)]
    ELSE IF op = "offset_face" THEN [offset |-> Get(ps, "offset", DefaultOffset)]
    ELSE IF op = "fillet_edge" THEN [radius |-> Get(ps, "radius", DefaultRadius)]
    ELSE IF op = "chamfer_edge"
       THEN [distance |-> Get(ps, "distance", DefaultChamferDistance)]
    ELSE EmptyDict

\* the handler call of the method of kind op
InvokeHandler(op, s, s2, el, a, k, k2) ==
    IF op = "extend_face" THEN extend_face(s, el, a.distance, a.direction, k, k2)
    ELSE IF op = "extrude_face" THEN extrude_face(s, el, a.distance, a.direction, k, k2)
    ELSE IF op = "extend_edge" THEN extend_edge(s, el, a.length, a.both_directions)
    ELSE IF op = "offset_face" THEN offset_face(s, el, a.offset, k)
    ELSE IF op = "fillet_edge" THEN fillet_edge(s, el, a.radius, k)
    ELSE IF op = "chamfer_edge" THEN chamfer_edge(s, el, a.distance, k)
    ELSE IF BooleanOperation(op) = "union" THEN boolean_union(s, s2, k)
    ELSE IF BooleanOperation(op) = "difference" THEN boolean_difference(s, s2, k)
    ELSE boolean_intersection(s, s2, k)

\* whether a kernel construction of the handler of kind op failed
KernelFailure(op, k, k2) ==
    IF op \in {"extend_face", "extrude_face"} THEN k # "done" \/ k2 # "done"
    ELSE IF op = "extend_edge" THEN FALSE
    ELSE k # "done"

\* shape = self.brep_ops.load_step_from_string(step_content)
DecodePrimary ==
    /\ UNCHANGED others
    /\ pc = "decode"
    /\ \E k \in {"status", "raise"} :
         LET r == load_step_from_string(step_content, k, files)
         IN  /\ files' = r.files
             /\ calls' = Append(calls, "decode")
             /\ IF r.out.raised
                   THEN /\ exc' = r.out.err
                        /\ pc' = "except"
                        /\ UNCHANGED <<shape, returned>>
                   ELSE /\ shape' = r.out.value
                        /\ returned' = Append(returned, "decode")
                        /\ pc' = StageAfter(operation_type, "decode")
                        /\ UNCHANGED exc
    /\ UNCHANGED <<operation_type, step_content, parameters, shape2, element, used,
                   modified_shape, result, response, kernelFailed>>

\* shape2 = self.brep_ops.load_step_from_string(step_content2)
DecodeSecondary ==
    /\ UNCHANGED others
    /\ pc = "decode2"
    /\ \E k \in {"status", "raise"} :
         LET r == load_step_from_string(Get(parameters, "other_step_content", None),
                                        k, files)
         IN  /\ files' = r.files
             /\ calls' = Append(calls, "decode")
             /\ IF r.out.raised
                   THEN /\ exc' = r.out.err
                        /\ pc' = "except"
                        /\ UNCHANGED <<shape2, returned>>
                   ELSE /\ shape2' = r.out.value
                        /\ returned' = Append(returned, "decode")
                        /\ pc' = StageAfter(operation_type, "decode2")
                        /\ UNCHANGED exc
    /\ UNCHANGED <<operation_type, step_content, parameters, shape, element, used,
                   modified_shape, result, response, kernelFailed>>

\* face = get_face_by_id(shape, face_id)  /  edge = get_edge_by_id(shape, edge_id)
Resolve ==
    /\ UNCHANGED others
    /\ pc = "resolve"
    /\ LET r == IF operation_type \in FaceKinds
                   THEN get_face_by_id(shape, IdArg(parameters, "face_id"))
                   ELSE get_edge_by_id(shape, IdArg(parameters, "edge_id"))
       IN  /\ calls' = Append(calls, "enumerate")
           /\ IF r.raised
                 THEN /\ exc' = r.err
                      /\ pc' = "except"
                      /\ UNCHANGED <<element, returned>>
                 ELSE /\ element' = r.value
                      /\ returned' = Append(returned, "enumerate")
                      /\ pc' = StageAfter(operation_type, "resolve")
                      /\ UNCHANGED exc
    /\ UNCHANGED <<operation_type, step_content, parameters, shape, shape2, used,
                   modified_shape, result, response, files, kernelFailed>>

\* modified_shape = self.brep_ops.<handler>(shape, element, <arguments>)
Handler ==
    /\ UNCHANGED others
    /\ pc = "handler"
    /\ \E k \in KernelOutcomes, k2 \in KernelOutcomes :
         LET a == HandlerArgs(operation_type, parameters)
             r == InvokeHandler(operation_type, shape, shape2, element, a, k, k2)
         IN  /\ used' = a
             /\ calls' = Append(calls, "handler")
             /\ kernelFailed' = KernelFailure(operation_type, k, k2)
             /\ IF r.raised
                   THEN /\ exc' = r.err
                        /\ pc' = "except"
                        /\ UNCHANGED <<modified_shape, returned>>
                   ELSE /\ modified_shape' = r.value
                        /\ returned' = Append(returned, "handler")
                        /\ pc' = StageAfter(operation_type, "handler")
                        /\ UNCHANGED exc
    /\ UNCHANGED <<operation_type, step_content, parameters, shape, shape2, element,
                   result, response, files>>

\* return self.brep_ops.shape_to_step_string(modified_shape)
Encode ==
    /\ UNCHANGED others
    /\ pc = "encode"
    /\ \E k \in KernelOutcomes :
         LET r == shape_to_step_string(modified_shape, k, files)
         IN  /\ files' = r.files
             /\ calls' = Append(calls, "encode")
             /\ IF r.out.raised
                   THEN /\ exc' = r.out.err
                        /\ pc' = "except"
                        /\ UNCHANGED <<result, returned>>
                   ELSE /\ result' = r.out.value
                        /\ returned' = Append(returned, "encode")
                        /\ pc' = StageAfter(operation_type, "encode")
                        /\ UNCHANGED exc
    /\ UNCHANGED <<operation_type, step_content, parameters, shape, shape2, element,
                   used, modified_shape, response, kernelFailed>>

\* the success response of manipulate_brep
Respond ==
    /\ UNCHANGED others
    /\ pc = "respond"
    /\ response' = Success(result, operation_type, parameters)
    /\ pc' = "done"
    /\ UNCHANGED <<operation_type, step_content, parameters, shape, shape2, element,
                   used, modified_shape, result, exc, files, calls, returned,
                   kernelFailed>>

\* the except clause of manipulate_brep
HandleException ==
    /\ UNCHANGED others
    /\ pc = "except"
    /\ response' = ServerError(exc)
    /\ pc' = "done"
    /\ UNCHANGED <<operation_type, step_content, parameters, shape, shape2, element,
                   used, modified_shape, result, exc, files, calls, returned,
                   kernelFailed>>

\* the response is sent; the next request finds nothing of this one but the
\* files it left on disk
Finish ==
    /\ UNCHANGED others
    /\ pc = "done"
    /\ pc' = "idle"
    /\ operation_type' = "none"
    /\ step_content' = None
    /\ parameters' = EmptyDict
    /\ shape' = NullShape
    /\ shape2' = NullShape
    /\ element' = NoElement
    /\ used' = EmptyDict
    /\ modified_shape' = NullShape
    /\ result' = None
    /\ exc' = ""
    /\ response' = NoResponse
    /\ calls' = <<>>
    /\ returned' = <<>>
    /\ kernelFailed' = FALSE
    /\ UNCHANGED files

---------------------------------------------------------------------------
(* /validate-step and /get-topology-info: validate_step_content and        *)
(* get_detailed_topology_info, each one decode followed by a walk of the   *)
(* shape with TopologyExplorer.                                            *)

\* the elements of a sequence, each kept at its first occurrence
RECURSIVE Unique(_)
Unique(q) ==
    IF q = <<>> THEN <<>>
    ELSE LET front == Unique(SubSeq(q, 1, Len(q) - 1))
             last == q[Len(q)]
         IN  IF last \in Range(front) THEN front ELSE Append(front, last)

\* TopologyExplorer(shape).faces() / .edges() / .vertices(): every element
\* once, whatever the number of parents it is met under
TopoFaces(s) == Unique(ExploreFaces(s))
TopoEdges(s) == Unique(ExploreEdges(s))
TopoVertices(s) ==
    Unique(Flatten([i \in 1..Len(ExploreEdges(s)) |-> ExploreEdges(s)[i].verts]))

\* validate_step_content: (is_valid, info).  A solid of this model has one
\* shell and one wire per face.
validate_step_content(text, k, fs) ==
    LET r == load_step_from_string(text, k, fs)
        s == r.out.value
    IN  IF r.out.raised
           THEN [valid |-> FALSE, info |-> [error |-> r.out.err], files |-> r.files]
           ELSE [valid |-> TRUE,
                 info |-> [faces_count |-> Len(TopoFaces(s)),
                           edges_count |-> Len(TopoEdges(s)),
                           vertices_count |-> Len(TopoVertices(s)),
                           solids_count |-> (IF s = NullShape THEN 0 ELSE 1),
                           shells_count |-> (IF s = NullShape THEN 0 ELSE 1),
                           wires_count |-> Len(TopoFaces(s))],
                 files |-> r.files]

\* the entries of faces_info / edges_info: the position in the enumeration
\* and the element the area / length and center are measured on
ElementInfos(elems, type) ==
    [i \in 1..Len(elems) |-> [id |-> i - 1, type |-> type, measured |-> elems[i].name]]

get_detailed_topology_info(text, k, fs) ==
    LET r == load_step_from_string(text, k, fs)
        s == r.out.value
    IN  IF r.out.raised
           THEN [out |-> Raised(r.out.err), files |-> r.files]
           ELSE [out |-> Returns([faces |-> ElementInfos(TopoFaces(s), "face"),
                                  edges |-> ElementInfos(TopoEdges(s), "edge"),
                                  total_faces |-> Len(TopoFaces(s)),
                                  total_edges |-> Len(TopoEdges(s)),
                                  total_vertices |-> Len(TopoVertices(s))]),
                 files |-> r.files]

\* the endpoint validate_step
ValidateStep(sc) ==
    /\ pc = "idle"
    /\ validation = NoProbe /\ topology = NoProbe
    /\ Cardinality(files) < MaxFiles
    /\ \E k \in {"status", "raise"} :
         LET r == validate_step_content(sc, k, files)
         IN  /\ validation' = [text |-> sc,
                               response |-> [valid |-> r.valid, info |-> r.info,
                                             status |-> 200]]
             /\ files' = r.files
    /\ UNCHANGED <<pc, operation_type, step_content, parameters, shape, shape2, element,
                   used, modified_shape, result, exc, response, calls, returned,
                   kernelFailed, topology, threads, disk>>

\* the endpoint get_topology_info
GetTopologyInfo(sc) ==
    /\ pc = "idle"
    /\ validation = NoProbe /\ topology = NoProbe
    /\ Cardinality(files) < MaxFiles
    /\ \E k \in {"status", "raise"} :
         LET r == get_detailed_topology_info(sc, k, files)
         IN  /\ topology' =
                   [text |-> sc,
                    response |-> IF r.out.raised
                                    THEN [success |-> FALSE, error |-> r.out.err,
                                          status |-> 500]
                                    ELSE [success |-> TRUE,
                                          topology_info |-> r.out.value,
                                          status |-> 200]]
             /\ files' = r.files
    /\ UNCHANGED <<pc, operation_type, step_content, parameters, shape, shape2, element,
                   used, modified_shape, result, exc, response, calls, returned,
                   kernelFailed, validation, threads, disk>>

\* the response of either endpoint is sent
FinishProbe ==
    /\ pc = "idle"
    /\ validation # NoProbe \/ topology # NoProbe
    /\ validation' = NoProbe
    /\ topology' = NoProbe
    /\ UNCHANGED <<pc, operation_type, step_content, parameters, shape, shape2, element,
                   used, modified_shape, result, exc, response, files, calls, returned,
                   kernelFailed, threads, disk>>

Init ==
    /\ pc = "idle"
    /\ operation_type = "none"
    /\ step_content = None
    /\ parameters = EmptyDict
    /\ shape = NullShape
    /\ shape2 = NullShape
    /\ element = NoElement
    /\ used = EmptyDict
    /\ modified_shape = NullShape
    /\ result = None
    /\ exc = ""
    /\ response = NoResponse
    /\ files = {}
    /\ calls = <<>>
    /\ returned = <<>>
    /\ kernelFailed = FALSE
    /\ validation = NoProbe
    /\ topology = NoProbe
    /\ threads = [t \in Threads |-> IdleThread]
    /\ disk = EmptyDict

Next ==
    \/ \E op \in KindInputs, sc \in StepInputs :
         \E ps \in ParamInputs(op) : Receive(op, sc, ps)
    \/ CheckContent
    \/ Dispatch
    \/ DecodePrimary
    \/ DecodeSecondary
    \/ Resolve
    \/ Handler
    \/ Encode
    \/ Respond
    \/ HandleException
    \/ Finish
    \/ \E sc \in StepInputs : ValidateStep(sc)
    \/ \E sc \in StepInputs : GetTopologyInfo(sc)
    \/ FinishProbe

Spec == Init /\ [][Next]_vars

---------------------------------------------------------------------------
(* Concurrent requests.  The transport runs manipulate_brep on several     *)
(* workers at once against the module-level manipulation_service and       *)
(* brep_ops.  Everything a request computes is local to its call; what the *)
(* workers share is the scratch directory.  A step is one access to it:    *)
(* creating and writing a scratch file, the kernel reading or writing it,  *)
(* reading it back and unlinking it.                                       *)

\* the kinds and texts the concurrent requests are drawn from
ConcKinds == {"offset_face", "boolean_union"}
ConcTexts == {StepText(Wedge), Number}
ConcParams(op) ==
    IF op = "offset_face" THEN {Single("face_id", 0)}
    ELSE {Single("other_step_content", sc) : sc \in {StepText(Fin)}}

\* the scratch directory with file f holding content c, written by worker t
WriteFile(d, f, t, c) ==
    [x \in DOMAIN d \cup {f} |-> IF x = f THEN [owner |-> t, content |-> c] ELSE d[x]]

\* the scratch directory without file f
RemoveFile(d, f) == [x \in DOMAIN d \ {f} |-> d[x]]

\* thread t set to th
SetThread(t, th) == threads' = [threads EXCEPT ![t] = th]

\* the except clause of manipulate_brep ends the request of th
Fails(th, msg) == [th EXCEPT !.pc = "done", !.response = ServerError(msg)]

\* the text the stage of th decodes
StageText(th) ==
    IF th.stage = "decode" THEN th.sc ELSE Get(th.ps, "other_step_content", None)

seqvars == <<pc, operation_type, step_content, parameters, shape, shape2, element,
             used, modified_shape, result, exc, response, files, calls, returned,
             kernelFailed, validation, topology>>

\* a worker takes a request
CAccept(t, op, sc, ps) ==
    /\ threads[t].pc = "idle"
    /\ SetThread(t, [IdleThread EXCEPT !.pc = "enter", !.op = op, !.sc = sc, !.ps = ps])
    /\ UNCHANGED <<disk, seqvars>>

\* the content check and the if/elif chain of manipulate_brep
CEnter(t) ==
    LET th == threads[t]
    IN  /\ th.pc = "enter"
        /\ SetThread(t,
             IF ~Truthy(th.sc)
                THEN [th EXCEPT !.pc = "done",
                                !.response = BadRequest("No STEP content provided")]
             ELSE IF Route(th.op) = "unknown"
                THEN [th EXCEPT !.pc = "done",
                                !.response = BadRequest("Unknown operation type")]
             ELSE [th EXCEPT !.pc = "create", !.stage = "decode"])
        /\ UNCHANGED <<disk, seqvars>>

\* load_step_from_string: NamedTemporaryFile and temp_file.write
CDecodeCreate(t) ==
    LET th == threads[t]
        f == NewFile(DOMAIN disk)
        text == StageText(th)
    IN  /\ th.pc = "create"
        /\ IF text.py # "str"
              THEN /\ disk' = WriteFile(disk, f, t, EmptyText)
                   /\ SetThread(t, Fails([th EXCEPT !.file = f],
                                         "TypeError: write() argument must be str"))
              ELSE /\ disk' = WriteFile(disk, f, t, text)
                   /\ SetThread(t, [th EXCEPT !.pc = "read", !.file = f])
        /\ UNCHANGED seqvars

\* load_step_from_string: ReadFile, os.unlink, the status test, TransferRoot
CDecodeRead(t) ==
    LET th == threads[t]
        f == th.file
    IN  /\ th.pc = "read"
        /\ \E k \in {"status", "raise"} :
             LET th1 == IF th.stage = "decode" THEN [th EXCEPT !.ks.read = k]
                        ELSE [th EXCEPT !.ks.read2 = k]
             IN  IF k = "raise"
                    THEN /\ SetThread(t, Fails(th1, "kernel exception in ReadFile"))
                         /\ UNCHANGED disk
                 ELSE IF f \notin DOMAIN disk
                    THEN /\ SetThread(t, Fails(th1, "FileNotFoundError"))
                         /\ UNCHANGED disk
                 ELSE /\ disk' = RemoveFile(disk, f)
                      /\ SetThread(t,
                           IF ReadStatus(disk[f].content) # "RetDone"
                              THEN Fails(th1, "Failed to read STEP file content")
                           ELSE IF th.stage = "decode"
                              THEN [th1 EXCEPT !.shape = OneShape(disk[f].content),
                                               !.pc = IF StageAfter(th.op, "decode") = "decode2"
                                                         THEN "create" ELSE "resolve",
                                               !.stage = StageAfter(th.op, "decode")]
                           ELSE [th1 EXCEPT !.shape2 = OneShape(disk[f].content),
                                            !.pc = "handler", !.stage = "handler"])
        /\ UNCHANGED seqvars

\* get_face_by_id / get_edge_by_id
CResolve(t) ==
    LET th == threads[t]
        r == IF th.op \in FaceKinds
                THEN get_face_by_id(th.shape, IdArg(th.ps, "face_id"))
                ELSE get_edge_by_id(th.shape, IdArg(th.ps, "edge_id"))
    IN  /\ th.pc = "resolve"
        /\ SetThread(t, IF r.raised THEN Fails(th, r.err)
                        ELSE [th EXCEPT !.element = r.value, !.pc = "handler",
                                        !.stage = "handler"])
        /\ UNCHANGED <<disk, seqvars>>

\* the outcomes of the second kernel call of a handler: only the prism
\* kinds make one
SecondOutcomes(op) ==
    IF op \in {"extend_face", "extrude_face"} THEN KernelOutcomes ELSE {"done"}

\* the handler of the kind
CHandler(t) ==
    LET th == threads[t]
    IN  /\ th.pc = "handler"
        /\ \E k \in KernelOutcomes, k2 \in SecondOutcomes(th.op) :
             LET r == InvokeHandler(th.op, th.shape, th.shape2, th.element,
                                    HandlerArgs(th.op, th.ps), k, k2)
                 th1 == [th EXCEPT !.ks.k = k, !.ks.k2 = k2]
             IN  SetThread(t, IF r.raised THEN Fails(th1, r.err)
                              ELSE [th1 EXCEPT !.modified = r.value, !.pc = "ecreate",
                                               !.stage = "encode"])
        /\ UNCHANGED <<disk, seqvars>>

\* shape_to_step_string: NamedTemporaryFile
CEncodeCreate(t) ==
    LET th == threads[t]
        f == NewFile(DOMAIN disk)
    IN  /\ th.pc = "ecreate"
        /\ disk' = WriteFile(disk, f, t, EmptyText)
        /\ SetThread(t, [th EXCEPT !.pc = "ewrite", !.file = f])
        /\ UNCHANGED seqvars

\* shape_to_step_string: writer.Transfer, writer.Write and the status test
CEncodeWrite(t) ==
    LET th == threads[t]
    IN  /\ th.pc = "ewrite"
        /\ \E k \in KernelOutcomes :
             LET th1 == [th EXCEPT !.ks.enc = k]
             IN  IF k = "raise"
                    THEN /\ SetThread(t, Fails(th1, "exception while serializing"))
                         /\ UNCHANGED disk
                 ELSE IF k # "done"
                    THEN /\ SetThread(t, Fails(th1, "Failed to write STEP file"))
                         /\ UNCHANGED disk
                 ELSE /\ disk' = WriteFile(disk, th.file, t, StepText(th.modified))
                      /\ SetThread(t, [th1 EXCEPT !.pc = "eread"])
        /\ UNCHANGED seqvars

\* shape_to_step_string: open, read, os.unlink; then the success response
CEncodeRead(t) ==
    LET th == threads[t]
        f == th.file
    IN  /\ th.pc = "eread"
        /\ IF f \notin DOMAIN disk
              THEN /\ SetThread(t, Fails(th, "FileNotFoundError"))
                   /\ UNCHANGED disk
              ELSE /\ disk' = RemoveFile(disk, f)
                   /\ SetThread(t, [th EXCEPT !.pc = "done",
                                              !.response = Success(disk[f].content,
                                                                   th.op, th.ps)])
        /\ UNCHANGED seqvars

NextConc ==
    \E t \in Threads :
        \/ \E op \in ConcKinds, sc \in ConcTexts :
             \E ps \in ConcParams(op) : CAccept(t, op, sc, ps)
        \/ CEnter(t)
        \/ CDecodeCreate(t)
        \/ CDecodeRead(t)
        \/ CResolve(t)
        \/ CHandler(t)
        \/ CEncodeCreate(t)
        \/ CEncodeWrite(t)
        \/ CEncodeRead(t)

SpecConc == Init /\ [][NextConc]_vars

---------------------------------------------------------------------------
(* Properties *)

\* the nine declared operation kinds
DeclaredKinds ==
    {"extend_face", "extrude_face", "extend_edge", "offset_face", "fillet_edge",
     "chamfer_edge", "boolean_union", "boolean_difference", "boolean_intersection"}

\* the primary solid text is missing (null) or the empty string
MissingOrEmpty(v) == v = None \/ v = EmptyText

\* C1: a request whose primary solid text is missing or empty, whatever its
\* kind and parameters, never starts a kernel call (decode, enumeration,
\* handler, encode) and ends in the 400 input failure.
C1_MissingSolidRejectedBeforeKernel ==
    MissingOrEmpty(step_content) =>
        /\ calls = <<>>
        /\ returned = <<>>
        /\ pc \in {"idle", "check", "done"}
        /\ pc = "done" => response = BadRequest("No STEP content provided")

C1_Witness ==
    /\ pc = "done"
    /\ step_content = EmptyText
    /\ operation_type = "fillet_edge"
    /\ "edge_id" \in DOMAIN parameters
    /\ response.status = 400

\* C2: a request whose kind is not one of the nine declared kinds is rejected
\* without a decode of the primary or secondary solid ever being started.
C2_UnknownKindNeverDecodes ==
    operation_type \notin DeclaredKinds =>
        /\ "decode" \notin Range(calls)
        /\ pc \in {"idle", "check", "dispatch", "done"}
        /\ pc = "done" => ~response.success /\ response.status = 400

C2_Witness ==
    /\ pc = "done"
    /\ operation_type = "rotate_face"
    /\ step_content = StepText(Wedge)
    /\ ~response.success

\* C3 as stated: an undeclared kind ends in the UnknownOperation failure
\* whatever else the request carries, the solid text included.
C3_UnknownKindAlwaysUnknownOperation ==
    (pc = "done" /\ operation_type \notin DeclaredKinds) =>
        response.error = "Unknown operation type"

\* C3 amended: an undeclared kind ends in the UnknownOperation failure
\* whatever the parameter mapping, provided the primary solid text is present
\* and non-empty; with the text missing or empty the request ends in the
\* missing-content failure instead.
C3_UnknownKindWithSolidText ==
    (pc = "done" /\ operation_type \notin DeclaredKinds) =>
        IF ~MissingOrEmpty(step_content)
           THEN response = BadRequest("Unknown operation type")
           ELSE response = BadRequest("No STEP content provided")

C3_Witness ==
    /\ pc = "done"
    /\ operation_type = "rotate_face"
    /\ step_content = Malformed
    /\ "other_step_content" \in DOMAIN parameters
    /\ response.error = "Unknown operation type"

\* the defaults each kind declares for its parameters
C4_DeclaredDefaults(op) ==
    IF op \in {"extend_face", "extrude_face"}
       THEN [distance |-> 10, direction |-> <<0, 0, 1>>]
    ELSE IF op = "extend_edge" THEN [length |-> 10, both_directions |-> FALSE]
    ELSE IF op = "offset_face" THEN [offset |-> 1]
    ELSE IF op = "fillet_edge" THEN [radius |-> 1]
    ELSE IF op = "chamfer_edge" THEN [distance |-> 1]
    ELSE EmptyDict

\* C4: on success parameters_used is the supplied mapping with every omitted
\* declared parameter filled in with its default.
C4_ParametersUsedCarryDefaults ==
    (pc = "done" /\ response.success) =>
        response.parameters_used = Merge(C4_DeclaredDefaults(operation_type), parameters)

\* the id the request carries for its kind, and the elements the indexer
\* enumerates on the decoded shape for that kind
IdKey == IF operation_type \in FaceKinds THEN "face_id" ELSE "edge_id"
Enumerated == IF operation_type \in FaceKinds THEN ExploreFaces(shape)
              ELSE ExploreEdges(shape)
Resolved == Len(calls) >= 2 /\ calls[2] = "enumerate" /\ IdKey \in DOMAIN parameters

\* C5: with N elements enumerated, an integer id in [0, N) resolves to the
\* element at position id of the traversal; any id < 0 or >= N fails with the
\* out-of-range error and resolves to no element (a negative id never counts
\* from the end).
C5_ResolveByPosition ==
    Resolved =>
        LET id == parameters[IdKey]
            N == Len(Enumerated)
        IN  IF 0 <= id /\ id < N
               THEN /\ Len(returned) >= 2
                    /\ element = Enumerated[id + 1]
               ELSE /\ returned = <<"decode">>
                    /\ element = NoElement
                    /\ pc \in {"except", "done"}
                    /\ exc \in {"Face ID out of range", "Edge ID out of range"}
                    /\ exc = "Face ID out of range" <=> operation_type \in FaceKinds

C5_Witness ==
    /\ pc = "done"
    /\ operation_type = "fillet_edge"
    /\ shape = Wedge
    /\ Resolved
    /\ parameters["edge_id"] = 0 - 1
    /\ exc = "Edge ID out of range"

\* C6 as stated: when the kernel cannot realize the offset, the request
\* returns success with the unmodified input shape encoded.
C6_OffsetFailureAlwaysSuccess ==
    (pc = "done" /\ operation_type = "offset_face" /\ kernelFailed) =>
        /\ response.success
        /\ response.modified_step_content = StepText(shape)

\* C6 amended: when the kernel cannot realize the offset, the handler returns
\* the unmodified input shape and that shape goes to the encoder; the request
\* returns success with it encoded whenever the encoder succeeds, and the only
\* error it can still end in is the encoder's.
C6_OffsetFailureDegrades ==
    (operation_type = "offset_face" /\ kernelFailed) =>
        /\ returned \in {<<"decode", "enumerate", "handler">>,
                         <<"decode", "enumerate", "handler", "encode">>}
        /\ modified_shape = shape
        /\ pc = "done" =>
              IF Len(returned) = 4
                 THEN response = Success(StepText(shape), operation_type, parameters)
                 ELSE /\ ~response.success
                      /\ calls[Len(calls)] = "encode"
                      /\ response.error \in {"Failed to write STEP file",
                                             "exception while serializing"}

C6_Witness ==
    /\ pc = "done"
    /\ operation_type = "offset_face"
    /\ kernelFailed
    /\ shape = Wedge
    /\ response.success
    /\ response.modified_step_content = StepText(Wedge)

StageOrder ==
    IF operation_type \in BooleanKinds THEN <<"decode", "decode", "handler", "encode">>
    ELSE IF operation_type \in FaceKinds \cup EdgeKinds
       THEN <<"decode", "enumerate", "handler", "encode">>
    ELSE <<>>

\* C8: the stages of a request start in the order decode (primary, then
\* secondary for boolean kinds), resolve, handler, encode; a stage starts only
\* when every stage before it has returned normally; the handler starts at
\* most once.
C8_StagesInOrder ==
    /\ IsPrefix(calls, StageOrder)
    /\ IsPrefix(returned, calls)
    /\ Len(calls) <= Len(returned) + 1
    /\ Cardinality({i \in DOMAIN calls : calls[i] = "handler"}) <= 1

C8_Witness ==
    /\ pc = "done"
    /\ operation_type = "boolean_difference"
    /\ calls = <<"decode", "decode", "handler", "encode">>
    /\ returned = calls
    /\ response.success

\* C9: once a stage has failed no later stage starts and the response has
\* success = false and no modified solid; a kernel failure inside a handler
\* leaves the handler stage failed, except for offset_face.
C9_FailureAbortsPipeline ==
    /\ Len(calls) > Len(returned) =>
          /\ pc \in {"except", "done"}
          /\ Len(calls) = Len(returned) + 1
          /\ pc = "done" => /\ ~response.success
                            /\ "modified_step_content" \notin DOMAIN response
    /\ (kernelFailed /\ operation_type # "offset_face") =>
          /\ Len(calls) > Len(returned)
          /\ calls[Len(calls)] = "handler"
    /\ (pc = "done" /\ response.success /\ kernelFailed) => operation_type = "offset_face"

C9_Witness ==
    /\ pc = "done"
    /\ operation_type = "fillet_edge"
    /\ kernelFailed
    /\ calls = <<"decode", "enumerate", "handler">>
    /\ ~response.success

\* C10: no scratch file created by the codec remains once the codec call has
\* returned or raised, so none remains after any sequence of requests.
C10_NoScratchFileRemains == files = {}

\* the input a kind requires and gives no default for
RequiredKey(op) ==
    IF op \in FaceKinds THEN "face_id"
    ELSE IF op \in EdgeKinds THEN "edge_id"
    ELSE "other_step_content"

\* C11: a request of a declared kind that omits its required input (face_id,
\* edge_id or the secondary solid text) is rejected as a client-input failure
\* before any kernel call: the primary solid has not been decoded.
C11_MissingRequiredInputRejectedEarly ==
    (operation_type \in DeclaredKinds /\ RequiredKey(operation_type) \notin DOMAIN parameters) =>
        /\ calls = <<>>
        /\ pc = "done" => ~response.success /\ response.status = 400

\* the texts decode is to fail on: empty, rejected by the reader as
\* malformed, or read without any root shape to transfer
Undecodable == {EmptyText, Malformed, NoRoot}

\* C13: decode returns no shape for an empty text, a malformed text or a text
\* with no root shape: validate reports valid = false for it, and a manipulate
\* request on it never reaches the indexer or a handler.
C13_UndecodableTextNeverYieldsShape ==
    /\ (validation # NoProbe /\ validation.text \in Undecodable) =>
          ~validation.response.valid
    /\ step_content \in Undecodable =>
          /\ returned = <<>>
          /\ "enumerate" \notin Range(calls)
          /\ "handler" \notin Range(calls)

\* the ids resolveFace / resolveEdge accept on shape s
AcceptedFaceIds(s) ==
    {i \in IdInputs : ~get_face_by_id(s, [py |-> "int", v |-> i]).raised}
AcceptedEdgeIds(s) ==
    {i \in IdInputs : ~get_edge_by_id(s, [py |-> "int", v |-> i]).raised}

\* C14: for a decodable solid the ids topologyInfo publishes are the ids
\* manipulate accepts, [0, total_faces) and [0, total_edges), and id i denotes
\* in topologyInfo the face / edge that resolveFace / resolveEdge returns for i.
C14_PublishedIdsAreAcceptedIds ==
    (topology # NoProbe /\ topology.response.success) =>
        LET info == topology.response.topology_info
            s == OneShape(topology.text)
        IN  /\ AcceptedFaceIds(s) = 0..(info.total_faces - 1)
            /\ AcceptedEdgeIds(s) = 0..(info.total_edges - 1)
            /\ \A i \in 1..Len(info.faces) :
                  LET r == get_face_by_id(s, [py |-> "int", v |-> info.faces[i].id])
                  IN  ~r.raised /\ r.value.name = info.faces[i].measured
            /\ \A i \in 1..Len(info.edges) :
                  LET r == get_edge_by_id(s, [py |-> "int", v |-> info.edges[i].id])
                  IN  ~r.raised /\ r.value.name = info.edges[i].measured

\* the response of the request of th served alone on an empty scratch
\* directory, the kernel answering as it answered th
AloneResponse(th) ==
    LET d1 == load_step_from_string(th.sc, th.ks.read, {})
        d2 == load_step_from_string(Get(th.ps, "other_step_content", None),
                                    th.ks.read2, {})
        s1 == d1.out.value
        s2 == IF th.op \in BooleanKinds THEN d2.out.value ELSE NullShape
        el == IF th.op \in FaceKinds
                 THEN get_face_by_id(s1, IdArg(th.ps, "face_id"))
                 ELSE get_edge_by_id(s1, IdArg(th.ps, "edge_id"))
        h == InvokeHandler(th.op, s1, s2,
                           IF th.op \in BooleanKinds THEN NoElement ELSE el.value,
                           HandlerArgs(th.op, th.ps), th.ks.k, th.ks.k2)
        e == shape_to_step_string(h.value, th.ks.enc, {})
    IN  IF th.sc = None \/ th.sc = EmptyText
           THEN BadRequest("No STEP content provided")
        ELSE IF th.op \notin DeclaredKinds THEN BadRequest("Unknown operation type")
        ELSE IF d1.out.raised THEN ServerError(d1.out.err)
        ELSE IF th.op \in BooleanKinds /\ d2.out.raised THEN ServerError(d2.out.err)
        ELSE IF th.op \notin BooleanKinds /\ el.raised THEN ServerError(el.err)
        ELSE IF h.raised THEN ServerError(h.err)
        ELSE IF e.out.raised THEN ServerError(e.out.err)
        ELSE Success(e.out.value, th.op, th.ps)

\* the scratch file th is working on, while it has one open
HoldsFile(th) == th.pc \in {"read", "ewrite", "eread"}

\* C12: with requests running concurrently in any interleaving, the scratch
\* file a request works on is its own and holds what it wrote, and the
\* response of every request is the one it gets when served alone.
C12_ConcurrentRequestsIndependent ==
    \A t \in Threads :
        LET th == threads[t]
        IN  /\ HoldsFile(th) =>
                 /\ th.file \in DOMAIN disk
                 /\ disk[th.file].owner = t
                 /\ th.pc = "read" => disk[th.file].content = StageText(th)
                 /\ th.pc = "eread" => disk[th.file].content = StepText(th.modified)
                 /\ \A u \in Threads \ {t} :
                       HoldsFile(threads[u]) => threads[u].file # th.file
            /\ th.pc = "done" => th.response = AloneResponse(th)

C12_Witness ==
    /\ threads[1].pc = "eread"
    /\ threads[2].pc = "read"
    /\ threads[1].op = "offset_face"
    /\ threads[2].op = "boolean_union"
    /\ threads[2].stage = "decode2"
    /\ Cardinality(DOMAIN disk) = 2

====
